---- MODULE Spec2Model ----
(***************************************************************************)
(* The typed fetch-state hook of "S11. React and TS/src/hooks/useFetch.ts" *)
(* as a state machine.  One hook instance is owned by one component.  The  *)
(* event loop runs one callback at a time: a render of the hook, the       *)
(* effect callback, and the handlers of the promise chain                  *)
(*   fetch(url).then(onResponse).then(onData).catch(onError).              *)
(* Spec, SpecCalls and SpecLive are this one instance; SpecTwo is two      *)
(* instances side by side.  The other components of the example            *)
(* application have a specification each: SpecCounter (Counter), SpecForm  *)
(* (OrderForm), SpecList (ChaiList and ChaiCard), and SpecChai (the class  *)
(* Chai with its price getter and setter).  Every specification leaves the *)
(* variables of the other components at their initial values.              *)
(***************************************************************************)
EXTENDS Integers, Sequences, FiniteSets, TLC

\* ---------------------------------------------------------------- bounds
\* retrievals issued in one behaviour
MaxReq == 3
\* calls of the hook counted in one behaviour of SpecCalls
MaxCalls == 4
\* retrievals issued in one behaviour of SpecCalls
MaxReqCalls == 2
\* retrievals issued in one behaviour of SpecTwo, by both instances together
MaxReqTwo == 3
\* clicks on the Counter's button in one behaviour of SpecCounter
MaxClicks == 13
\* submit events of the OrderForm in one behaviour of SpecForm
MaxSubmits == 2
\* items passed to ChaiList in SpecList
MaxItems == 3
\* assignments to c.price in one behaviour of SpecChai
MaxAssign == 3

\* the resource identifiers the owning component passes
Urls == {"/todos/1", "/todos/2"}

\* ---------------------------------------------------------------- values
\* the JavaScript value null: an absent field and the JSON payload null alike
Null == [tag |-> "null"]

\* payloads res.json() can resolve to
Todo1 == [tag |-> "obj", userId |-> 1, id |-> 1, title |-> "delectus aut autem", completed |-> FALSE]
Payloads == {Todo1, Null}

\* statuses of a response with res.ok false: the not-found status
FailStatuses == {404}

\* an Error whose message leaves the status out
StatusErrorBuggy(status) == [tag |-> "Error", name |-> "Error",
                             message |-> "Request failed", status |-> 0]
\* the Error thrown on a response that is not ok
StatusError(status) == [tag |-> "Error", name |-> "Error",
                        message |-> "Request failed with status", status |-> status]
\* the rejection of fetch itself (network unreachable, DNS failure)
TransportError == [tag |-> "Error", name |-> "TypeError",
                   message |-> "Failed to fetch", status |-> 0]
\* the rejection of res.json() on a body that is not JSON
ParseError == [tag |-> "Error", name |-> "SyntaxError",
               message |-> "Unexpected token", status |-> 0]

\* what fetch(url) settles with: a rejection or a Response
Responses == {[ok |-> TRUE, status |-> 200]}
             \cup {[ok |-> FALSE, status |-> s] : s \in FailStatuses}

\* ---------------------------------------------------------------- state
VARIABLES
    url,        \* the identifier of the latest call of the hook (useFetch.ts:16)
    state,      \* the FetchState held by useState (useFetch.ts:17)
    deps,       \* [url] of the effect's last run, <<>> before the first (useFetch.ts:34)
    requests,   \* the retrievals issued, in order of issue (useFetch.ts:23-33)
    log,        \* the setState calls made, in order (useFetch.ts:21, 29, 32)
    mounted,    \* the owning component is mounted
    uncaught,   \* retrievals whose rejection reached no handler
    calls,      \* calls of the hook so far, counted by SpecCalls (useFetch.ts:16)
    triggers,   \* the first call plus the calls whose url differed from the call before
    hooks,      \* two instances of the hook, each with its own useState cell (useFetch.ts:17)
    count,      \* Counter: the count of the last render (part_008:6)
    updates,    \* Counter: the updaters passed to setCount and not yet applied (part_008:11)
    clicks,     \* Counter: the click events dispatched to the button so far
    name,       \* OrderForm: the name state (OrderForm.tsx:15)
    cups,       \* OrderForm: the cups state (OrderForm.tsx:16)
    orders,     \* OrderForm: the arguments of the onSubmit calls made, in order (OrderForm.tsx:20)
    submits,    \* OrderForm: the submit events dispatched to the form so far
    typed,      \* OrderForm: e.target.value of the last change event of each input
    items,      \* ChaiList: the items prop (part_009:12)
    cards,      \* ChaiList: the ChaiCard elements rendered, in order (part_009:15-22)
    shown,      \* ChaiCard: a card rendered on its own, with its props (Chaicard.tsx:11)
    price,      \* Chai: the private field _price (part_002:136)
    assigned,   \* Chai: the values assigned to c.price so far, in order
    threw       \* Chai: the last assignment to c.price threw

\* ---------------------------------------------------------------- FetchState
FetchState(data, loading, error) == [data |-> data, loading |-> loading, error |-> error]

\* useState's initial value
InitialState == FetchState(Null, TRUE, Null)

\* a loading value with the flag left false
LoadingStateBuggy == FetchState(Null, FALSE, Null)
\* a loading value that keeps the data of the state before
LoadingStateKeepsData == FetchState(state.data, TRUE, Null)
\* the value the effect sets before it calls fetch
LoadingState == FetchState(Null, TRUE, Null)

\* the first then-handler without its res.ok check
OnResponseBuggy(res) == [throws |-> FALSE, err |-> Null]
\* the first then-handler: throws on a response that is not ok, else parses
OnResponse(res) ==
    IF ~res.ok THEN [throws |-> TRUE, err |-> StatusError(res.status)]
               ELSE [throws |-> FALSE, err |-> Null]

\* the second then-handler: the value it sets
OnData(data) == FetchState(data, FALSE, Null)

\* the catch handler: the value it sets
OnError(err) == FetchState(Null, FALSE, err)

\* .catch attached to fetch(url) itself, before the then-handlers
CatchCoversBuggy == {"transport"}
\* the stages of the chain whose rejection reaches the catch handler:
\* .catch is attached last, after both then-handlers
CatchCovers == {"transport", "status", "parse"}

\* the three forms of the state record
IsFormA(s) == s.loading = TRUE  /\ s.data = Null /\ s.error = Null
IsFormB(s) == s.loading = FALSE /\ s.data # Null /\ s.error = Null
IsFormC(s) == s.loading = FALSE /\ s.data = Null /\ s.error # Null

NoDeps == <<>>

\* ---------------------------------------------------------------- components
\* the hook instances of SpecTwo
Instances == {1, 2}

\* a hook instance after its first call with identifier u
Instance(u) == [url |-> u, state |-> InitialState, deps |-> NoDeps,
                requests |-> <<>>, mounted |-> TRUE]

\* two components that each call useFetch("/todos/1")
TwoInit == hooks = [i \in Instances |-> Instance("/todos/1")]

\* Counter: useState<number>(0), nothing clicked yet
InitialCount == 0
CounterInit ==
    /\ count = InitialCount
    /\ updates = <<>>
    /\ clicks = 0

\* OrderForm: useState<string>("Masala"), useState<number>(1), nothing submitted
\* no change event has reached the input yet
NoChange == "(none)"
InitialName == "Masala"
InitialCups == 1
FormInit ==
    /\ name = InitialName
    /\ cups = InitialCups
    /\ orders = <<>>
    /\ submits = 0
    /\ typed = [name |-> NoChange, cups |-> NoChange]

\* the menu App passes to ChaiList
menu == << [id |-> 1, name |-> "Masala", price |-> 35],
           [id |-> 2, name |-> "Ginger", price |-> 20],
           [id |-> 3, name |-> "Dum", price |-> 15],
           [id |-> 4, name |-> "Elaichi", price |-> 35],
           [id |-> 5, name |-> "Irani", price |-> 20] >>
\* ChaiList: App's menu as items, not rendered yet
ListInit ==
    /\ items = menu
    /\ cards = <<>>
    /\ shown = <<>>

\* a JavaScript number: an integer v, or NaN
Num(v) == [nan |-> FALSE, v |-> v]
NaN == [nan |-> TRUE, v |-> 0]

\* Chai: private _price: number = 20, nothing assigned yet
InitialPrice == 20
ChaiInit ==
    /\ price = Num(InitialPrice)
    /\ assigned = <<>>
    /\ threw = FALSE

\* the counters of SpecCalls
hist == <<calls, triggers>>

\* the state of the hook instance of Spec and SpecCalls
hookVars == <<url, state, deps, requests, log, mounted, uncaught, calls, triggers>>
\* the state of the other components
twoVars == <<hooks>>
counterVars == <<count, updates, clicks>>
formVars == <<name, cups, orders, submits, typed>>
listVars == <<items, cards, shown>>
chaiVars == <<price, assigned, threw>>
comps == <<twoVars, counterVars, formVars, listVars, chaiVars>>

vars == <<hookVars, comps>>

\* a setState call behind an "is this still the active request" check
SetStateGuarded(r, handler, value) ==
    /\ log' = Append(log, [req |-> r, url |-> requests'[r].url, cur |-> url,
                           mounted |-> mounted, handler |-> handler, value |-> value])
    /\ state' = IF mounted /\ r = Len(requests') THEN value ELSE state
\* a setState call made by `handler` on behalf of retrieval r: React applies
\* it to a mounted component and drops it for an unmounted one
SetState(r, handler, value) ==
    /\ log' = Append(log, [req |-> r, url |-> requests'[r].url, cur |-> url,
                           mounted |-> mounted, handler |-> handler, value |-> value])
    /\ state' = IF mounted THEN value ELSE state

\* the first call of the hook; the two identifiers are interchangeable, so
\* the first one is fixed and the later calls pass either
HookInit ==
    /\ url = "/todos/1"
    /\ state = InitialState
    /\ deps = NoDeps
    /\ requests = <<>>
    /\ log = <<>>
    /\ mounted = TRUE
    /\ uncaught = {}
    /\ calls = 1
    /\ triggers = 1

Init == HookInit /\ TwoInit /\ CounterInit /\ FormInit /\ ListInit /\ ChaiInit

\* the owning component renders again and calls useFetch(u)
Render(u) ==
    /\ mounted
    /\ deps = <<url>>
    /\ u # url => Len(requests) < MaxReq
    /\ url' = u
    /\ UNCHANGED <<state, deps, requests, log, mounted, uncaught>>

\* no dependency array: the effect is due after every render
EffectDueBuggy == TRUE
\* the dependency array []: the effect is due after the first render only
EffectDueOnce == deps = NoDeps
\* a dependency check that skips a url a retrieval was already issued for
EffectDueDedup == deps # <<url>> /\ ~\E r \in DOMAIN requests : requests[r].url = url
\* the dependency array [url]: the effect is due when it has not run yet or
\* the url differs from the one of its last run
EffectDue == deps # <<url>>

\* the effect callback, run after a render for which it is due:
\* setState(loading), then fetch(url)
RunEffect ==
    /\ mounted
    /\ EffectDue
    /\ Len(requests) < MaxReq
    /\ requests' = Append(requests, [url |-> url, pc |-> "fetch", outcome |-> "none",
                                     res |-> Null, payload |-> Null, err |-> Null])
    /\ deps' = <<url>>
    /\ SetState(Len(requests) + 1, "effect", LoadingState)
    /\ UNCHANGED <<url, mounted, uncaught>>

\* a rejection of stage `stage` with reason err travels down the chain
Reject(r, stage, err) ==
    IF stage \in CatchCovers
    THEN /\ SetState(r, "catch", OnError(err))
         /\ UNCHANGED uncaught
    ELSE /\ uncaught' = uncaught \cup {r}
         /\ UNCHANGED <<state, log>>

\* fetch(url) rejects: both then-handlers are skipped
FetchReject(r) ==
    /\ r \in DOMAIN requests
    /\ requests[r].pc = "fetch"
    /\ requests' = [requests EXCEPT ![r].pc = "done", ![r].outcome = "transport",
                                    ![r].err = TransportError]
    /\ Reject(r, "transport", TransportError)
    /\ UNCHANGED <<url, deps, mounted>>

\* fetch(url) resolves with a Response: the first then-handler runs
FetchResolve(r, res) ==
    /\ r \in DOMAIN requests
    /\ requests[r].pc = "fetch"
    /\ LET h == OnResponse(res) IN
       IF h.throws
       THEN /\ requests' = [requests EXCEPT ![r].pc = "done", ![r].outcome = "status",
                                            ![r].res = res, ![r].err = h.err]
            /\ Reject(r, "status", h.err)
       ELSE /\ requests' = [requests EXCEPT ![r].pc = "json", ![r].res = res]
            /\ UNCHANGED <<state, log, uncaught>>
    /\ UNCHANGED <<url, deps, mounted>>

\* res.json() resolves with the parsed payload: the second then-handler runs
JsonResolve(r, data) ==
    /\ r \in DOMAIN requests
    /\ requests[r].pc = "json"
    /\ requests' = [requests EXCEPT ![r].pc = "done", ![r].outcome = "success",
                                    ![r].payload = data]
    /\ SetState(r, "then", OnData(data))
    /\ UNCHANGED <<url, deps, mounted, uncaught>>

\* res.json() rejects: the second then-handler is skipped
JsonReject(r) ==
    /\ r \in DOMAIN requests
    /\ requests[r].pc = "json"
    /\ requests' = [requests EXCEPT ![r].pc = "done", ![r].outcome = "parse",
                                    ![r].err = ParseError]
    /\ Reject(r, "parse", ParseError)
    /\ UNCHANGED <<url, deps, mounted>>

\* the owning component is torn down; the effect returned no cleanup function.
\* React runs the effects of a committed render before it commits the next
\* render or the unmount, so no effect is pending here (as in Render)
Unmount ==
    /\ mounted
    /\ deps = <<url>>
    /\ mounted' = FALSE
    /\ UNCHANGED <<url, state, deps, requests, log, uncaught>>

Next ==
    \/ (\E u \in Urls : Render(u)) /\ UNCHANGED <<hist, comps>>
    \/ RunEffect /\ UNCHANGED <<hist, comps>>
    \/ (\E r \in 1..MaxReq : FetchReject(r)) /\ UNCHANGED <<hist, comps>>
    \/ (\E r \in 1..MaxReq, res \in Responses : FetchResolve(r, res)) /\ UNCHANGED <<hist, comps>>
    \/ (\E r \in 1..MaxReq, data \in Payloads : JsonResolve(r, data)) /\ UNCHANGED <<hist, comps>>
    \/ (\E r \in 1..MaxReq : JsonReject(r)) /\ UNCHANGED <<hist, comps>>
    \/ Unmount /\ UNCHANGED <<hist, comps>>

Spec == Init /\ [][Next]_vars

\* ---------------------------------------------------------------- SpecCalls
\* the same hook with the calls of the hook counted

\* a call of the hook, counted; it is a trigger when its url differs from the
\* url of the call before
RenderCounted(u) ==
    /\ calls < MaxCalls
    /\ u # url => Len(requests) < MaxReqCalls
    /\ Render(u)
    /\ calls' = calls + 1
    /\ triggers' = IF u # url THEN triggers + 1 ELSE triggers
    /\ UNCHANGED comps

RunEffectCounted ==
    /\ Len(requests) < MaxReqCalls
    /\ RunEffect
    /\ UNCHANGED <<hist, comps>>

UnmountCounted == Unmount /\ UNCHANGED <<hist, comps>>

NextCalls ==
    \/ \E u \in Urls : RenderCounted(u)
    \/ RunEffectCounted
    \/ (\E r \in 1..MaxReqCalls : FetchReject(r)) /\ UNCHANGED <<hist, comps>>
    \/ (\E r \in 1..MaxReqCalls, res \in Responses : FetchResolve(r, res)) /\ UNCHANGED <<hist, comps>>
    \/ (\E r \in 1..MaxReqCalls, data \in Payloads : JsonResolve(r, data)) /\ UNCHANGED <<hist, comps>>
    \/ (\E r \in 1..MaxReqCalls : JsonReject(r)) /\ UNCHANGED <<hist, comps>>
    \/ UnmountCounted

SpecCalls == Init /\ [][NextCalls]_vars

\* ---------------------------------------------------------------- SpecLive
\* SpecCalls with the scheduling the event loop gives: React runs the effect
\* of a committed render, and the retrieval layer settles every promise it
\* handed out (fetch(url), then res.json())

\* the next step of retrieval r's promise chain
SettleStep(r) ==
    /\ \/ FetchReject(r)
       \/ \E res \in Responses : FetchResolve(r, res)
       \/ \E data \in Payloads : JsonResolve(r, data)
       \/ JsonReject(r)
    /\ UNCHANGED <<hist, comps>>

SpecLive ==
    /\ Init
    /\ [][NextCalls]_vars
    /\ WF_vars(RunEffectCounted)
    /\ \A r \in 1..MaxReqCalls : WF_vars(SettleStep(r))

\* ---------------------------------------------------------------- SpecTwo
\* two components, each calling useFetch: every call of useState belongs to
\* the component instance that made it, and every effect run calls fetch
\* anew, so each instance has its own state, deps and promise chains

\* the retrievals issued so far by both instances together
TwoIssued == Len(hooks[1].requests) + Len(hooks[2].requests)

\* one state cell shared by all instances (a module-level variable)
CellShared(i) == Instances
\* the instances whose state cell a setState call of instance i writes:
\* setState comes from the useState call of the instance itself
Cell(i) == {i}

\* a setState call of instance i; React drops it for an unmounted component
TwoSetState(hs, i, value) ==
    [j \in Instances |->
        IF j \in Cell(i) /\ hs[j].mounted THEN [hs[j] EXCEPT !.state = value] ELSE hs[j]]

\* instance 1 is called with "/todos/1", instance 2 with either identifier
InitTwo ==
    /\ HookInit /\ CounterInit /\ FormInit /\ ListInit /\ ChaiInit
    /\ \E u \in Urls : hooks = [i \in Instances |->
                                 IF i = 1 THEN Instance("/todos/1") ELSE Instance(u)]

\* the component of instance i renders again and calls useFetch(u)
TwoRender(i, u) ==
    /\ hooks[i].mounted
    /\ hooks[i].deps = <<hooks[i].url>>
    /\ u # hooks[i].url => TwoIssued < MaxReqTwo
    /\ hooks' = [hooks EXCEPT ![i].url = u]

\* the effect callback of instance i: setState(loading), then fetch(url)
TwoRunEffect(i) ==
    /\ hooks[i].mounted
    /\ hooks[i].deps # <<hooks[i].url>>
    /\ TwoIssued < MaxReqTwo
    /\ hooks' = TwoSetState(
                    [hooks EXCEPT ![i].requests = Append(@, [url |-> hooks[i].url, pc |-> "fetch"]),
                                  ![i].deps = <<hooks[i].url>>],
                    i, LoadingState)

\* fetch(url) of instance i's retrieval r rejects
TwoFetchReject(i, r) ==
    /\ r \in DOMAIN hooks[i].requests
    /\ hooks[i].requests[r].pc = "fetch"
    /\ hooks' = TwoSetState([hooks EXCEPT ![i].requests[r].pc = "done"],
                            i, OnError(TransportError))

\* fetch(url) of instance i's retrieval r resolves with a Response
TwoFetchResolve(i, r, res) ==
    /\ r \in DOMAIN hooks[i].requests
    /\ hooks[i].requests[r].pc = "fetch"
    /\ LET h == OnResponse(res) IN
       IF h.throws
       THEN hooks' = TwoSetState([hooks EXCEPT ![i].requests[r].pc = "done"],
                                 i, OnError(h.err))
       ELSE hooks' = [hooks EXCEPT ![i].requests[r].pc = "json"]

\* res.json() of instance i's retrieval r resolves
TwoJsonResolve(i, r, data) ==
    /\ r \in DOMAIN hooks[i].requests
    /\ hooks[i].requests[r].pc = "json"
    /\ hooks' = TwoSetState([hooks EXCEPT ![i].requests[r].pc = "done"],
                            i, OnData(data))

\* res.json() of instance i's retrieval r rejects
TwoJsonReject(i, r) ==
    /\ r \in DOMAIN hooks[i].requests
    /\ hooks[i].requests[r].pc = "json"
    /\ hooks' = TwoSetState([hooks EXCEPT ![i].requests[r].pc = "done"],
                            i, OnError(ParseError))

\* the component of instance i is torn down
TwoUnmount(i) ==
    /\ hooks[i].mounted
    /\ hooks[i].deps = <<hooks[i].url>>
    /\ hooks' = [hooks EXCEPT ![i].mounted = FALSE]

\* everything but the two instances
twoFrame == <<hookVars, counterVars, formVars, listVars, chaiVars>>

NextTwo ==
    \/ (\E i \in Instances, u \in Urls : TwoRender(i, u)) /\ UNCHANGED twoFrame
    \/ (\E i \in Instances : TwoRunEffect(i)) /\ UNCHANGED twoFrame
    \/ (\E i \in Instances, r \in 1..MaxReqTwo : TwoFetchReject(i, r)) /\ UNCHANGED twoFrame
    \/ (\E i \in Instances, r \in 1..MaxReqTwo, res \in Responses :
            TwoFetchResolve(i, r, res)) /\ UNCHANGED twoFrame
    \/ (\E i \in Instances, r \in 1..MaxReqTwo, data \in Payloads :
            TwoJsonResolve(i, r, data)) /\ UNCHANGED twoFrame
    \/ (\E i \in Instances, r \in 1..MaxReqTwo : TwoJsonReject(i, r)) /\ UNCHANGED twoFrame
    \/ (\E i \in Instances : TwoUnmount(i)) /\ UNCHANGED twoFrame

SpecTwo == InitTwo /\ [][NextTwo]_vars

\* ---------------------------------------------------------------- SpecCounter
\* the Counter component of src/unnamed/part_008: a click handler that queues
\* an update of count, and the render in which useState applies the queue

\* setCount(count + 1): the value computed from the count of the last render
ClickUpdateValue == [kind |-> "value", v |-> count + 1]
\* what the click handler passes to setCount: the updater (c) => c + 1
ClickUpdate == [kind |-> "fn", v |-> 0]

\* useState applies one queued update to the state c: an updater function is
\* called with c, a plain value replaces c
ApplyUpdate(u, c) == IF u.kind = "fn" THEN c + 1 ELSE u.v

\* useState applies the queued updates in the order of the setCount calls
RECURSIVE ApplyAll(_, _)
ApplyAll(us, c) == IF us = <<>> THEN c ELSE ApplyAll(Tail(us), ApplyUpdate(Head(us), c))

\* a click on the button: onClick calls setCount((c) => c + 1)
Click ==
    /\ clicks < MaxClicks
    /\ updates' = Append(updates, ClickUpdate)
    /\ clicks' = clicks + 1
    /\ UNCHANGED count

\* React renders Counter again: useState returns the state with every queued
\* update applied
CounterRender ==
    /\ updates # <<>>
    /\ count' = ApplyAll(updates, count)
    /\ updates' = <<>>
    /\ UNCHANGED clicks

\* everything but the Counter
counterFrame == <<hookVars, twoVars, formVars, listVars, chaiVars>>

NextCounter ==
    \/ Click /\ UNCHANGED counterFrame
    \/ CounterRender /\ UNCHANGED counterFrame

SpecCounter == Init /\ [][NextCounter]_vars

\* ---------------------------------------------------------------- SpecForm
\* the OrderForm component of components/OrderForm.tsx.  Change and submit
\* are discrete events: React renders the component again before the next
\* event is handled, so every handler closes over the current name and cups

\* what the user leaves in the name input
NameTexts == {"Masala", "Ginger", ""}
\* what the user leaves in the number input: digits, or nothing
CupsTexts == {"", "1", "2", "3"}

\* Number(text) for the texts of the number input: the empty string is 0
NumberOf(text) ==
    CASE text = ""  -> 0
      [] text = "1" -> 1
      [] text = "2" -> 2
      [] text = "3" -> 3

\* a handleSubmit that passes the initial values
OrdersOfSubmitStale == << [name |-> InitialName, cups |-> InitialCups] >>
\* the onSubmit calls handleSubmit makes: one, with the current name and cups
OrdersOfSubmit == << [name |-> name, cups |-> cups] >>

\* handleSubmit calls e.preventDefault(): the browser does not submit the
\* form, so the page and with it the state of the component stay
PreventsDefault == TRUE

\* a change event of the name input: setName(e.target.value)
ChangeName(text) ==
    /\ name' = text
    /\ typed' = [typed EXCEPT !.name = text]
    /\ UNCHANGED <<cups, orders, submits>>

\* a change event of the cups input: setCups(Number(e.target.value))
ChangeCups(text) ==
    /\ cups' = NumberOf(text)
    /\ typed' = [typed EXCEPT !.cups = text]
    /\ UNCHANGED <<name, orders, submits>>

\* a submit event of the form: handleSubmit
Submit ==
    /\ submits < MaxSubmits
    /\ submits' = submits + 1
    /\ orders' = orders \o OrdersOfSubmit
    /\ IF PreventsDefault
       THEN UNCHANGED <<name, cups, typed>>
       ELSE /\ name' = InitialName
            /\ cups' = InitialCups
            /\ typed' = [name |-> NoChange, cups |-> NoChange]

\* everything but the OrderForm
formFrame == <<hookVars, twoVars, counterVars, listVars, chaiVars>>

NextForm ==
    \/ (\E text \in NameTexts : ChangeName(text)) /\ UNCHANGED formFrame
    \/ (\E text \in CupsTexts : ChangeCups(text)) /\ UNCHANGED formFrame
    \/ Submit /\ UNCHANGED formFrame

SpecForm == Init /\ [][NextForm]_vars

\* ---------------------------------------------------------------- SpecList
\* ChaiList of src/unnamed/part_009 and ChaiCard of components/Chaicard.tsx
\* as functions from props to the elements they render

\* the chais the items are drawn from: two of App's menu and two at the
\* price that separates special from plain
Chais == {menu[1], menu[2],
          [id |-> 6, name |-> "Kesar", price |-> 30],
          [id |-> 7, name |-> "Tulsi", price |-> 31]}

\* the props a parent passes to a ChaiCard of its own, isSpecial given or not
CardProps ==
    {[name |-> "Masala", price |-> 35], [name |-> "Ginger", price |-> 20]}
    \cup {[name |-> "Masala", price |-> 35, isSpecial |-> b] : b \in BOOLEAN}
    \cup {[name |-> "Ginger", price |-> 20, isSpecial |-> b] : b \in BOOLEAN}

\* the sequences over S of length at most n
SeqsUpTo(S, n) == UNION {[1..k -> S] : k \in 0..n}

\* a comparison that takes the boundary price in
IsSpecialPriceBuggy(p) == p >= 30
\* isSpecial={chai.price > 30}
IsSpecialPrice(p) == p > 30

\* ChaiCard({ name, price, isSpecial = false }): the article it renders, the
\* span with ** present or not
ChaiCard(props) ==
    LET isSpecial == IF "isSpecial" \in DOMAIN props THEN props.isSpecial ELSE FALSE
    IN  [name |-> props.name, price |-> props.price, marker |-> isSpecial]

\* ChaiList({ items }): items.map, one ChaiCard per item in the order of items
ChaiList(its) ==
    [i \in DOMAIN its |->
        ChaiCard([name |-> its[i].name, price |-> its[i].price,
                  isSpecial |-> IsSpecialPrice(its[i].price)])]

\* ChaiList is rendered with items drawn from Chais
InitList ==
    /\ HookInit /\ TwoInit /\ CounterInit /\ FormInit /\ ChaiInit
    /\ items \in SeqsUpTo(Chais, MaxItems)
    /\ cards = <<>>
    /\ shown = <<>>

\* React renders <ChaiList items={items} />
RenderList ==
    /\ cards' = ChaiList(items)
    /\ UNCHANGED <<items, shown>>

\* React renders a <ChaiCard /> with the given props
RenderCard(props) ==
    /\ shown' = << [props |-> props, card |-> ChaiCard(props)] >>
    /\ UNCHANGED <<items, cards>>

\* everything but ChaiList and ChaiCard
listFrame == <<hookVars, twoVars, counterVars, formVars, chaiVars>>

NextList ==
    \/ RenderList /\ UNCHANGED listFrame
    \/ (\E props \in CardProps : RenderCard(props)) /\ UNCHANGED listFrame

SpecList == InitList /\ [][NextList]_vars

\* ---------------------------------------------------------------- SpecChai
\* the class Chai of src/unnamed/part_002 with its price getter and setter

\* the numbers assigned to c.price
PriceInputs == {Num(-5), Num(0), Num(20), Num(30), NaN}

\* a < b on JavaScript numbers: false when either side is NaN
JsLess(a, b) == ~a.nan /\ ~b.nan /\ a.v < b.v

\* get price(): return this._price
GetPrice == price

\* c.price = value, the setter: throws on value < 0, else stores value
SetPrice(value) ==
    /\ Len(assigned) < MaxAssign
    /\ assigned' = Append(assigned, value)
    /\ IF JsLess(value, Num(0))
       THEN /\ threw' = TRUE
            /\ UNCHANGED price
       ELSE /\ threw' = FALSE
            /\ price' = value

\* everything but the Chai object
chaiFrame == <<hookVars, twoVars, counterVars, formVars, listVars>>

NextChai == \E value \in PriceInputs : SetPrice(value) /\ UNCHANGED chaiFrame

SpecChai == Init /\ [][NextChai]_vars

\* ---------------------------------------------------------------- history
Done(r) == requests[r].pc = "done"
Latest == Len(requests)

\* the setState calls made on behalf of retrieval r, in order
EntriesOf(r) == SelectSeq(log, LAMBDA e : e.req = r)

\* positions in the log: the effect run that issued r, the handler that settled r
IssuedAt(r) == CHOOSE i \in DOMAIN log : log[i].req = r /\ log[i].handler = "effect"
SettledAt(r) == CHOOSE i \in DOMAIN log : log[i].req = r /\ log[i].handler # "effect"

\* the three failure kinds, by what the retrieval layer delivered
FailedTransport(r) == requests[r].outcome = "transport"
FailedStatus(r) == IF requests[r].res = Null THEN FALSE ELSE ~requests[r].res.ok
FailedParse(r) == requests[r].outcome = "parse"
Failed(r) == FailedTransport(r) \/ FailedStatus(r) \/ FailedParse(r)

\* ---------------------------------------------------------------- claims

\* C1: a setState call made when a retrieval settles (the then- or the catch
\* handler) happens only if the retrieval was issued for the identifier that
\* is current when it settles.
C1_NoStalePublication ==
    \A i \in DOMAIN log :
        log[i].handler # "effect" => log[i].url = log[i].cur

\* C2: the identifier changed from X to Y before X's retrieval settled, every
\* earlier retrieval had settled by then, and now both have settled: the state
\* is the outcome of Y's retrieval.
OutcomeOf(r) ==
    IF requests[r].outcome = "success"
    THEN FetchState(requests[r].payload, FALSE, Null)
    ELSE FetchState(Null, FALSE, requests[r].err)
C2_StateIsLatestOutcome ==
    (/\ mounted
     /\ deps = <<url>>
     /\ Latest >= 2
     /\ requests[Latest - 1].url # requests[Latest].url
     /\ \A r \in DOMAIN requests : Done(r)
     /\ IssuedAt(Latest) < SettledAt(Latest - 1)
     /\ \A r \in 1..(Latest - 2) : SettledAt(r) < IssuedAt(Latest))
    => state = OutcomeOf(Latest)

\* C3: no setState call is made after the owning component is torn down.
C3_NoPublicationAfterTeardown ==
    \A i \in DOMAIN log : log[i].mounted

\* C4: the state record always has one of the forms (a), (b), (c).
C4_StateHasOneForm ==
    IsFormA(state) \/ IsFormB(state) \/ IsFormC(state)

\* C5: the setState calls made for one retrieval begin with the loading form
\* (a); once the retrieval has settled they end with exactly one terminal
\* call, of form (b) or (c), and until then there is no terminal call.
C5_LoadingThenOneTerminal ==
    \A r \in DOMAIN requests :
        LET es == EntriesOf(r) IN
        /\ Len(es) >= 1
        /\ IsFormA(es[1].value)
        /\ ~Done(r) => Len(es) = 1
        /\ Done(r) => /\ Len(es) = 2
                      /\ IsFormB(es[2].value) \/ IsFormC(es[2].value)

\* C6: while the retrieval issued for the current identifier (the latest one,
\* the effect having run for the current identifier) is outstanding, the
\* state of the mounted hook has loading = true.
C6_LoadingWhileOutstanding ==
    (/\ mounted
     /\ deps = <<url>>
     /\ Latest >= 1
     /\ ~Done(Latest))
    => state.loading = TRUE

\* C7: a retrieval that failed in any of the three ways (fetch rejected, the
\* response was not ok, res.json() rejected) has made the catch handler
\* publish the error form (c), and a mounted hook whose last setState call
\* that was holds the error form.
C7_FailurePublishesErrorForm ==
    \A r \in DOMAIN requests :
        (Done(r) /\ Failed(r)) =>
            /\ \E i \in DOMAIN log : /\ log[i].req = r
                                     /\ log[i].handler = "catch"
                                     /\ IsFormC(log[i].value)
            /\ (mounted /\ log[Len(log)].req = r) => IsFormC(state)
C7_Witness ==
    /\ \E r \in DOMAIN requests : Done(r) /\ FailedTransport(r)
    /\ \E r \in DOMAIN requests : Done(r) /\ FailedStatus(r)
    /\ \E r \in DOMAIN requests : Done(r) /\ FailedParse(r)
    /\ mounted

\* C8: no rejection of the chain started by fetch(url) is left without a
\* handler: every failed retrieval reached the catch handler, which put the
\* reason of the rejection into the error field.
C8_NoUncaughtRejection ==
    /\ uncaught = {}
    /\ \A r \in DOMAIN requests :
           (Done(r) /\ Failed(r)) =>
               /\ \E i \in DOMAIN log : /\ log[i].req = r
                                        /\ log[i].handler = "catch"
                                        /\ log[i].value.error = requests[r].err
               /\ (mounted /\ log[Len(log)].req = r) => state.error = requests[r].err
C8_Witness ==
    /\ mounted
    /\ Latest >= 1
    /\ Done(Latest)
    /\ FailedParse(Latest)
    /\ log[Len(log)].req = Latest
    /\ state.error = ParseError

\* C9: once the retrieval for the current identifier has failed and the state
\* holds its error, a step that leaves the identifier unchanged issues no
\* retrieval and leaves the state as it is.
ErrorHeld ==
    /\ mounted
    /\ deps = <<url>>
    /\ Latest >= 1
    /\ Done(Latest)
    /\ Failed(Latest)
    /\ state = FetchState(Null, FALSE, requests[Latest].err)
C9_NoRetryErrorStays ==
    [][(ErrorHeld /\ url' = url) => (Len(requests') = Len(requests) /\ state' = state)]_vars

\* C10: a successful response whose payload parses makes the then-handler
\* publish the success form (b): data the parsed payload, loading false,
\* error absent.
C10_SuccessPublishesPayload ==
    \A i \in DOMAIN log :
        log[i].handler = "then" =>
            /\ requests[log[i].req].res.ok
            /\ log[i].value.data = requests[log[i].req].payload
            /\ log[i].value.loading = FALSE
            /\ log[i].value.error = Null
            /\ IsFormB(log[i].value)

\* C11: a retrieval answered with status 404 ends in the catch handler
\* publishing data absent, loading false and the Error of status 404; its
\* body is never parsed, nothing of it is published as data, and a mounted
\* hook whose last setState call that was holds exactly this state.
NotFound(r) == IF requests[r].res = Null THEN FALSE ELSE requests[r].res.status = 404
C11_NotFoundEndsInError ==
    \A r \in DOMAIN requests :
        NotFound(r) =>
            /\ Done(r)
            /\ requests[r].payload = Null
            /\ LET es == EntriesOf(r) IN
               /\ Len(es) = 2
               /\ es[2].value = FetchState(Null, FALSE, requests[r].err)
               /\ es[2].value.error.status = 404
               /\ \A i \in DOMAIN es : es[i].value.data = Null
            /\ (mounted /\ log[Len(log)].req = r) =>
                   /\ state.data = Null
                   /\ state.loading = FALSE
                   /\ state.error # Null
                   /\ state.error.status = 404
C11_Witness ==
    /\ mounted
    /\ Latest = 1
    /\ NotFound(1)
    /\ state.error = StatusError(404)

\* C12: a call of the hook with the url of the call before issues no
\* retrieval and leaves the effect not due; a retrieval is issued only when
\* the current run of identical urls has none yet, so there is at most one
\* retrieval per run.
C12_SameUrlNoRetrieval ==
    [][/\ (calls' # calls /\ url' = url) => (requests' = requests /\ deps' = <<url'>>)
       /\ Len(requests') > Len(requests) => Len(requests) < triggers
       /\ Len(requests') <= triggers']_vars
C12_Witness ==
    /\ calls >= 3
    /\ triggers = 1
    /\ Len(requests) = 1

\* C13: the number of fetch calls made equals the number of triggers once the
\* effect of the latest call has run; while that effect is pending the number
\* is one less and the effect is able to run.
C13_OneRetrievalPerTrigger ==
    /\ deps = <<url>> => Len(requests) = triggers
    /\ deps # <<url>> => Len(requests) = triggers - 1
    /\ (mounted /\ deps # <<url>>) => ENABLED RunEffectCounted
C13_Witness ==
    /\ calls = 4
    /\ triggers = 2
    /\ Len(requests) = 2
    /\ deps = <<url>>

\* C14: every setState call of a then- or catch handler comes after the
\* setState call of the effect run that issued the same retrieval, and that
\* earlier call published the loading form (a).
C14_LoadingBeforeTerminal ==
    \A i \in DOMAIN log :
        log[i].handler # "effect" =>
            \E j \in 1..(i - 1) : /\ log[j].req = log[i].req
                                  /\ log[j].handler = "effect"
                                  /\ IsFormA(log[j].value)
                                  /\ log[j].value.loading = TRUE
C14_Witness ==
    /\ Latest = 2
    /\ Done(1) /\ Done(2)
    /\ requests[1].outcome = "success"
    /\ requests[2].outcome = "status"
    /\ Len(log) = 4

\* C15: the step that issues a retrieval sets the state to the loading form
\* (a), with no data and no error, and at that point nothing has been
\* published for the new retrieval but this loading state.
C15_ResetOnNewIdentifier ==
    [][Len(requests') > Len(requests) =>
           /\ state' = FetchState(Null, TRUE, Null)
           /\ IsFormA(state')
           /\ requests'[Len(requests')].url = url
           /\ requests'[Len(requests')].pc = "fetch"
           /\ log'[Len(log')].req = Len(requests')
           /\ \A i \in DOMAIN log : log[i].req # Len(requests')]_vars
C15_Witness ==
    /\ Latest = 2
    /\ requests[1].url # requests[2].url
    /\ Len(log) = 3
    /\ log[2].handler = "then"
    /\ log[2].value.data = Todo1
    /\ log[3].handler = "effect"
    /\ state = FetchState(Null, TRUE, Null)

\* C16: once the success or error state of the retrieval for the current
\* identifier is held, a step that leaves the identifier unchanged leaves the
\* state unchanged; the state changes only into the loading form, or from the
\* loading form into a state with loading false.
TerminalHeld ==
    /\ mounted
    /\ deps = <<url>>
    /\ Latest >= 1
    /\ Done(Latest)
    /\ Len(EntriesOf(Latest)) = 2
    /\ state = EntriesOf(Latest)[2].value
C16_TerminalUntilSuperseded ==
    [][/\ (TerminalHeld /\ url' = url) => state' = state
       /\ state' # state => \/ IsFormA(state')
                            \/ IsFormA(state) /\ ~state'.loading]_vars

\* C17: a retrieval causes one setState call when it is issued (the effect)
\* and, once settled, exactly one more: of the then-handler if it succeeded,
\* of the catch handler if it failed, never both and never a third.
C17_TwoCallsPerRetrieval ==
    \A r \in DOMAIN requests :
        LET es == EntriesOf(r) IN
        /\ Len(es) = IF Done(r) THEN 2 ELSE 1
        /\ es[1].handler = "effect"
        /\ Done(r) => /\ es[2].handler \in {"then", "catch"}
                      /\ es[2].handler = "then" <=> requests[r].outcome = "success"
                      /\ es[2].handler = "catch" <=> Failed(r)
C17_Witness ==
    /\ Latest = 2
    /\ Done(1) /\ Done(2)
    /\ requests[1].outcome = "parse"
    /\ requests[2].outcome = "success"
    /\ Len(log) = 4
    /\ ~mounted

\* C18: every trigger issues a retrieval of its own: a pending effect is
\* always able to run, whatever was retrieved before or is still in flight;
\* once it has run the latest retrieval is one issued for the current
\* identifier, and every retrieval began with a setState call of the loading
\* state, so no earlier result is reused.
EffectEntries == SelectSeq(log, LAMBDA e : e.handler = "effect")
C18_NoCachingNoDedup ==
    /\ (mounted /\ deps # <<url>>) => ENABLED RunEffect
    /\ deps = <<url>> => (Latest >= 1 /\ requests[Latest].url = url)
    /\ Len(EffectEntries) = Latest
    /\ \A r \in DOMAIN requests :
           /\ EffectEntries[r].req = r
           /\ EffectEntries[r].value = FetchState(Null, TRUE, Null)
C18_Witness ==
    /\ Latest = 3
    /\ requests[3].url = requests[1].url
    /\ requests[1].outcome = "success"
    /\ requests[1].payload = Todo1
    /\ requests[2].pc = "fetch"
    /\ requests[3].pc = "fetch"
    /\ log[Len(log)].req = 3
    /\ state = FetchState(Null, TRUE, Null)

\* C19 as stated: the retrieval call is the only suspension point, so the
\* step in which fetch(url) settles is the step that publishes the terminal
\* state.
C19_OneSuspensionPoint ==
    [][\A r \in DOMAIN requests :
           (requests[r].pc = "fetch" /\ requests'[r].pc # "fetch") =>
               /\ requests'[r].pc = "done"
               /\ Len(log') = Len(log) + 1
               /\ log'[Len(log')].req = r]_vars

\* C19 amended: a request suspends at fetch(url) and, for a response that is
\* ok, once more at res.json(); it takes no other step, and the step in which
\* it settles is the step in which its terminal state is published.
C19_TwoSuspensionPoints ==
    [][\A r \in DOMAIN requests :
           requests'[r].pc # requests[r].pc =>
               /\ <<requests[r].pc, requests'[r].pc>> \in
                      {<<"fetch", "json">>, <<"fetch", "done">>, <<"json", "done">>}
               /\ requests'[r].pc = "json" =>
                      /\ requests'[r].res.ok
                      /\ log' = log
                      /\ state' = state
               /\ requests'[r].pc = "done" =>
                      /\ Len(log') = Len(log) + 1
                      /\ log'[Len(log')].req = r
                      /\ log'[Len(log')].handler # "effect"]_vars
C19_Witness ==
    /\ Latest = 2
    /\ requests[1].pc = "json"
    /\ requests[1].res.ok
    /\ Done(2)
    /\ ~mounted

\* C20: whenever the state of the mounted hook has data present, the setState
\* call that put it there was made for a retrieval of the identifier the hook
\* was last called with, and the data is that retrieval's payload.
C20_DataOfCurrentIdentifier ==
    (mounted /\ state.data # Null) =>
        /\ log[Len(log)].url = url
        /\ state.data = requests[log[Len(log)].req].payload

\* C21: in a mounted hook whose effect has run for the current identifier and
\* whose retrievals have all settled, the state is the outcome of the
\* retrieval that settled last in time, whichever identifier it was issued
\* for and whenever it was issued.
LastSettled == CHOOSE r \in DOMAIN requests :
                   \A q \in DOMAIN requests : SettledAt(q) <= SettledAt(r)
C21_LastSettledDecides ==
    (/\ mounted
     /\ deps = <<url>>
     /\ Latest >= 1
     /\ \A r \in DOMAIN requests : Done(r))
    => /\ state = OutcomeOf(LastSettled)
       /\ log[Len(log)].req = LastSettled
C21_Witness ==
    /\ mounted
    /\ deps = <<url>>
    /\ Latest = 2
    /\ Done(1) /\ Done(2)
    /\ requests[1].url # requests[2].url
    /\ SettledAt(2) < SettledAt(1)
    /\ LastSettled = 1
    /\ requests[1].outcome = "success"
    /\ requests[2].outcome = "transport"
    /\ state = FetchState(Todo1, FALSE, Null)

\* C23: every setState call of the then-handler, whatever the payload parsed
\* to, publishes loading false and exactly one of data and error non-null.
C23_SuccessHasOneOfDataError ==
    \A i \in DOMAIN log :
        log[i].handler = "then" =>
            /\ log[i].value.loading = FALSE
            /\ (log[i].value.data # Null) # (log[i].value.error # Null)

\* C22: when every retrieval settles and the identifier stops changing, from
\* some point on every retrieval has settled and the state of the mounted
\* hook has loading = false for good.
C22_EventuallyNotLoading ==
    <>[](/\ \A r \in DOMAIN requests : Done(r)
         /\ deps = <<url>>
         /\ mounted => state.loading = FALSE)
C22_Witness ==
    /\ mounted
    /\ deps = <<url>>
    /\ Latest = 2
    /\ requests[1].url # requests[2].url
    /\ Done(1) /\ Done(2)
    /\ SettledAt(1) > IssuedAt(2)
    /\ state.loading = FALSE

\* C24: a step in which an instance issues a retrieval, or in which one of
\* its retrievals takes a step of its promise chain, leaves every other
\* instance as it was, whether or not the instances use the same
\* identifier; no step changes two instances.
C24_InstancesIndependent ==
    [][\A i \in Instances :
           /\ hooks'[i].requests # hooks[i].requests =>
                  \A j \in Instances \ {i} : hooks'[j] = hooks[j]
           /\ hooks'[i] # hooks[i] =>
                  \A j \in Instances \ {i} : hooks'[j].state = hooks[j].state]_vars
C24_Witness ==
    /\ hooks[1].url = hooks[2].url
    /\ hooks[1].mounted /\ hooks[2].mounted
    /\ Len(hooks[1].requests) = 1 /\ Len(hooks[2].requests) = 1
    /\ hooks[1].requests[1].pc = "done"
    /\ hooks[2].requests[1].pc = "fetch"
    /\ hooks[1].state = FetchState(Todo1, FALSE, Null)
    /\ hooks[2].state = FetchState(Null, TRUE, Null)

\* C25: count starts at 0; the count of a render made after n clicks, with
\* no update left in the queue, is n, however many clicks were queued before
\* the render; every click adds exactly 1 to the count the next render
\* shows, and the count never decreases.
C25_CountEqualsClicks ==
    /\ count = 0
    /\ [](/\ updates = <<>> => count = clicks
          /\ ApplyAll(updates, count) = clicks
          /\ count <= clicks)
    /\ [][/\ count' >= count
          /\ clicks' = clicks + 1 =>
                 ApplyAll(updates', count') = ApplyAll(updates, count) + 1]_vars
C25_Witness ==
    /\ clicks = 5
    /\ count = 2
    /\ Len(updates) = 3

\* C26: a submit event appends exactly one onSubmit call, whose argument
\* holds the name and the cups set by the last change event of each input
\* ("Masala" and 1 where there was none), and leaves name and cups as they
\* are; a step that is no submit event makes no onSubmit call.
LastName == IF typed.name = NoChange THEN "Masala" ELSE typed.name
LastCups == IF typed.cups = NoChange THEN 1 ELSE NumberOf(typed.cups)
C26_SubmitCallsOnSubmitOnce ==
    /\ [](/\ Len(orders) = submits
          /\ name = LastName
          /\ cups = LastCups)
    /\ [][/\ submits' = submits + 1 =>
                 /\ orders' = Append(orders, [name |-> LastName, cups |-> LastCups])
                 /\ name' = name
                 /\ cups' = cups
          /\ submits' = submits => orders' = orders]_vars
C26_Witness ==
    /\ submits = 2
    /\ orders = << [name |-> "Masala", cups |-> 1], [name |-> "Ginger", cups |-> 0] >>
    /\ name = ""
    /\ cups = 3

\* C27: the cards ChaiList has rendered are one per item, in the order of
\* the items, each with the name and price of its item and with the marker
\* exactly when the price is greater than 30; a ChaiCard rendered on its own
\* has the marker exactly when isSpecial was passed as true.
C27_OneCardPerItem ==
    /\ cards # <<>> =>
           /\ Len(cards) = Len(items)
           /\ \A i \in DOMAIN items :
                  /\ cards[i].name = items[i].name
                  /\ cards[i].price = items[i].price
                  /\ cards[i].marker <=> items[i].price > 30
                  /\ items[i].price = 30 => ~cards[i].marker
    /\ \A k \in DOMAIN shown :
           LET props == shown[k].props IN
           /\ "isSpecial" \in DOMAIN props => (shown[k].card.marker <=> props.isSpecial)
           /\ "isSpecial" \notin DOMAIN props => ~shown[k].card.marker
C27_Witness ==
    /\ Len(items) = 3
    /\ items[1].price = 31 /\ items[2].price = 30 /\ items[3].price = 35
    /\ Len(cards) = 3
    /\ cards[1].marker /\ ~cards[2].marker /\ cards[3].marker
    /\ Len(shown) = 1
    /\ "isSpecial" \notin DOMAIN shown[1].props
    /\ ~shown[1].card.marker

\* C28: the price read through the getter is never negative and is the last
\* non-negative value assigned, 20 if there is none; an assignment of a
\* negative value throws and leaves the price as it is, an assignment of a
\* non-negative value stores it.
IsNegative(x) == ~x.nan /\ x.v < 0
IsNonNegative(x) == ~x.nan /\ x.v >= 0
RECURSIVE LastNonNegative(_)
LastNonNegative(as) ==
    IF as = <<>> THEN Num(20)
    ELSE IF IsNonNegative(as[Len(as)]) THEN as[Len(as)]
    ELSE LastNonNegative(SubSeq(as, 1, Len(as) - 1))
C28_PriceIsLastNonNegative ==
    /\ ~IsNegative(GetPrice)
    /\ GetPrice = LastNonNegative(assigned)
    /\ assigned # <<>> =>
           LET value == assigned[Len(assigned)] IN
           /\ IsNegative(value) => threw
           /\ IsNonNegative(value) => (~threw /\ GetPrice = value)

====
